---- MODULE Spec2Model ----
(***************************************************************************)
(* The serial-matrix wizard of mrp_production_serial_matrix                *)
(* (wizards/mrp_production_serial_matrix.py): generation of the matrix     *)
(* rows, the warning aggregator and the validation/commit step.            *)
(*                                                                         *)
(* Recordsets are sequences of records (the empty sequence is falsy), a    *)
(* Many2one that is not set is the value Falsy.  Quantities are exact      *)
(* rationals [n, d] (the code's floats, without their rounding error).     *)
(***************************************************************************)
EXTENDS Integers, Sequences, FiniteSets, TLC

\* ------------------------------------------------------------------ bounds
MaxQty == 2
MaxMoves == 2
MaxRows == 3

\* ------------------------------------------------------------------ values
Falsy == "False"

Abs(x) == IF x < 0 THEN -x ELSE x

RECURSIVE GCD(_, _)
GCD(a, b) == IF b = 0 THEN a ELSE GCD(b, a % b)

\* the rational n/d in lowest terms, d > 0
Frac(n, d) == LET g == GCD(Abs(n), d) IN [n |-> n \div g, d |-> d \div g]

Zero == Frac(0, 1)
One == Frac(1, 1)
RAdd(a, b) == Frac(a.n * b.d + b.n * a.d, a.d * b.d)
RSub(a, b) == Frac(a.n * b.d - b.n * a.d, a.d * b.d)
RDiv(a, b) == Frac(a.n * b.d, a.d * b.n)
RLess(a, b) == a.n * b.d < b.n * a.d
RLeq(a, b) == a.n * b.d <= b.n * a.d
\* (mutant of PyInt: rounds to the nearest integer instead of truncating)
PyIntRound(q) == (2 * q.n + q.d) \div (2 * q.d)

\* Python's int() of a float: truncation toward zero
PyInt(q) == IF q.n >= 0 THEN q.n \div q.d ELSE -((-q.n) \div q.d)

\* odoo.tools.float_utils.float_is_zero: the value rounds (half up) to zero
\* at the given precision
float_is_zero(value, precision_rounding) ==
    RLess(Frac(2 * Abs(value.n), value.d), precision_rounding)

\* ---------------------------------------------------------------- catalogue
SerialProduct == "S"
LotProduct == "L"
UntrackedProduct == "U"
ByProduct == "B"

\* product.tracking
Tracking(product) ==
    CASE product = SerialProduct -> "serial"
      [] product = LotProduct -> "lot"
      [] OTHER -> "none"

\* product.uom_id.rounding
UomRounding(product) == Frac(1, 100)

FinishedLots == {"F1", "F2"}
SerialLots == {"s1", "s2"}
LotLots == {"la", "lb"}

\* stock.lot.product_id read backwards: the lots of a product
LotsOf(product) ==
    CASE product = SerialProduct -> SerialLots
      [] product = LotProduct -> LotLots
      [] OTHER -> {}

\* stock.lot.name
LotName(lot) == <<lot>>

\* a stock.lot record as the wizard holds it; its id is a database id, or in
\* an onchange a NewId wrapping it
DbId(lot) == [new |-> FALSE, ref |-> lot]
NewId(lot) == [new |-> TRUE, ref |-> lot]
\* NewId.origin
Origin(id) == DbId(id.ref)
LotRecord(id) == [id |-> id, name |-> LotName(id.ref)]

NoBomLine == [set |-> FALSE, product_qty |-> Zero, bom_product_qty |-> One]
BomLine(line_qty, bom_qty) ==
    [set |-> TRUE, product_qty |-> line_qty, bom_product_qty |-> bom_qty]

\* a stock.move of the order: product, total quantity to consume, BoM line
Move(product, qty, boml) ==
    [product_id |-> product, product_qty |-> qty, bom_line_id |-> boml]

VARIABLES
    production,        \* the manufacturing order the wizard is opened on
    stock,             \* per component lot: free and reserved quantity
    mos,               \* the manufacturing orders in the database
    wizard,            \* "none" | "open" | "closed": the wizard record's life
    finished_lot_ids,  \* wizard.finished_lot_ids (a sequence of lot ids)
    include_lots,      \* wizard.include_lots
    line_ids,          \* wizard.line_ids (the matrix rows, in order)
    result,            \* how the last request ended
    calls              \* the calls the last request made on the host, in order

vars == <<production, stock, mos, wizard, finished_lot_ids, include_lots,
          line_ids, result, calls>>

\* --------------------------------------------------------- matrix generation
\* the serial branch of _get_matrix_lines: for i in range(1, int(q) + 1)
RECURSIVE SerialTuples(_, _, _)
SerialTuples(product, i, n) ==
    IF i > n THEN <<>>
    ELSE <<[product |-> product, lot_no |-> i, lot_qty |-> One]>>
         \o SerialTuples(product, i + 1, n)

\* quantity of a move's component per finished unit
QtyPerFinishedUnit(move, prod) ==
    IF move.bom_line_id.set
    THEN RDiv(move.bom_line_id.product_qty, move.bom_line_id.bom_product_qty)
    ELSE RDiv(move.product_qty, Frac(prod.product_qty, 1))

\* (mutant of MoveTuples: the include_lots switch also governs the serials)
MoveTuplesSwitchAll(move, prod, incl) ==
    IF float_is_zero(move.product_qty, UomRounding(move.product_id)) \/ ~incl
    THEN <<>>
    ELSE LET q == QtyPerFinishedUnit(move, prod) IN
         IF Tracking(move.product_id) = "serial"
         THEN SerialTuples(move.product_id, 1, PyInt(q))
         ELSE IF Tracking(move.product_id) = "lot"
              THEN <<[product |-> move.product_id, lot_no |-> 0, lot_qty |-> q]>>
              ELSE <<>>

\* the component tuples one move contributes
MoveTuples(move, prod, incl) ==
    IF float_is_zero(move.product_qty, UomRounding(move.product_id))
    THEN <<>>
    ELSE LET q == QtyPerFinishedUnit(move, prod) IN
         IF Tracking(move.product_id) = "serial"
         THEN SerialTuples(move.product_id, 1, PyInt(q))
         ELSE IF Tracking(move.product_id) = "lot" /\ incl
              THEN <<[product |-> move.product_id, lot_no |-> 0, lot_qty |-> q]>>
              ELSE <<>>

\* the first loop of _get_matrix_lines
RECURSIVE TrackedComponents(_, _, _)
TrackedComponents(moves, prod, incl) ==
    IF moves = <<>> THEN <<>>
    ELSE MoveTuples(Head(moves), prod, incl)
         \o TrackedComponents(Tail(moves), prod, incl)

NewLotName(number) == <<"(New Lot ", number, ")">>

ColumnName(component, lot_no) ==
    IF lot_no > 0 THEN <<component, lot_no>> ELSE <<component>>

\* _prepare_matrix_line; finished_lot is a recordset of at most one lot
PrepareMatrixLine(component_tuple, finished_lot, number) ==
    LET base == [component_id |-> component_tuple.product,
                 component_column_name |->
                     ColumnName(component_tuple.product, component_tuple.lot_no),
                 lot_qty |-> component_tuple.lot_qty,
                 finished_lot_id |-> Falsy,
                 finished_lot_name |-> <<>>,
                 component_lot_id |-> Falsy]
    IN IF finished_lot # <<>>
       THEN LET lot == finished_lot[1]
                lot_id == IF lot.id.new THEN Origin(lot.id) ELSE lot.id
            IN [base EXCEPT !.finished_lot_id = lot_id.ref,
                            !.finished_lot_name = lot.name]
       ELSE [base EXCEPT !.finished_lot_name = NewLotName(number)]

RECURSIVE GroupLines(_, _, _)
GroupLines(tracked, current_lot, number) ==
    IF tracked = <<>> THEN <<>>
    ELSE <<PrepareMatrixLine(Head(tracked), current_lot, number)>>
         \o GroupLines(Tail(tracked), current_lot, number)

\* (mutant of MatrixLoop: new_lot_number counts every group, chosen or not)
RECURSIVE MatrixLoopCountAll(_, _, _, _)
MatrixLoopCountAll(todo, finished_lots, new_lot_number, tracked) ==
    IF todo = 0 THEN <<>>
    ELSE LET current_lot == IF finished_lots # <<>>
                            THEN <<Head(finished_lots)>> ELSE <<>>
             number == new_lot_number + 1
             left == IF current_lot # <<>>
                     THEN SelectSeq(finished_lots, LAMBDA l: l # current_lot[1])
                     ELSE finished_lots
         IN GroupLines(tracked, current_lot, number)
            \o MatrixLoopCountAll(todo - 1, left, number, tracked)

\* the second loop of _get_matrix_lines: `todo` iterations are left
RECURSIVE MatrixLoop(_, _, _, _)
MatrixLoop(todo, finished_lots, new_lot_number, tracked) ==
    IF todo = 0 THEN <<>>
    ELSE LET current_lot == IF finished_lots # <<>>
                            THEN <<Head(finished_lots)>> ELSE <<>>
             number == IF finished_lots # <<>>
                       THEN new_lot_number ELSE new_lot_number + 1
             left == IF current_lot # <<>>
                     THEN SelectSeq(finished_lots, LAMBDA l: l # current_lot[1])
                     ELSE finished_lots
         IN GroupLines(tracked, current_lot, number)
            \o MatrixLoop(todo - 1, left, number, tracked)

GetMatrixLines(prod, finished_lots, incl) ==
    MatrixLoop(prod.product_qty, finished_lots, 0,
               TrackedComponents(prod.move_raw_ids, prod, incl))

\* ---------------------------------------------------------- warning aggregator
\* line._get_available_and_reserved_quantities(): the free and the reserved
\* quantity of the line's lot
AvailableAndReserved(line) == stock[line.component_lot_id]

\* serial_counter after the loop over the serial lines: the lots in the order
\* of their first use, each with the number of lines using it
RECURSIVE SerialCounter(_, _)
SerialCounter(lines, counter) ==
    IF lines = <<>> THEN counter
    ELSE LET sl == Head(lines) IN
         IF sl.component_lot_id = Falsy
         THEN SerialCounter(Tail(lines), counter)
         ELSE LET at == {i \in 1..Len(counter) : counter[i].lot = sl.component_lot_id}
                  with_key == IF at = {}
                              THEN Append(counter, [lot |-> sl.component_lot_id, n |-> 0])
                              ELSE counter
                  k == CHOOSE i \in 1..Len(with_key) :
                           with_key[i].lot = sl.component_lot_id
              IN SerialCounter(Tail(lines),
                               [with_key EXCEPT ![k].n = with_key[k].n + 1])

\* (mutants of SerialWarningsOf: the threshold off by one, either way)
RECURSIVE SerialWarningsOfAny(_)
SerialWarningsOfAny(counter) ==
    IF counter = <<>> THEN <<>>
    ELSE (IF Head(counter).n > 0
          THEN <<[lot |-> Head(counter).lot,
                  msg |-> <<"Serial number", LotName(Head(counter).lot),
                            "selected several times">>,
                  row |-> 0]>>
          ELSE <<>>)
         \o SerialWarningsOfAny(Tail(counter))

RECURSIVE SerialWarningsOfAboveTwo(_)
SerialWarningsOfAboveTwo(counter) ==
    IF counter = <<>> THEN <<>>
    ELSE (IF Head(counter).n > 2
          THEN <<[lot |-> Head(counter).lot,
                  msg |-> <<"Serial number", LotName(Head(counter).lot),
                            "selected several times">>,
                  row |-> 0]>>
          ELSE <<>>)
         \o SerialWarningsOfAboveTwo(Tail(counter))

RECURSIVE SerialWarningsOf(_)
SerialWarningsOf(counter) ==
    IF counter = <<>> THEN <<>>
    ELSE (IF Head(counter).n > 1
          THEN <<[lot |-> Head(counter).lot,
                  msg |-> <<"Serial number", LotName(Head(counter).lot),
                            "selected several times">>,
                  row |-> 0]>>
          ELSE <<>>)
         \o SerialWarningsOf(Tail(counter))

RECURSIVE Ascending(_)
Ascending(S) ==
    IF S = {} THEN <<>>
    ELSE LET m == CHOOSE x \in S : \A y \in S : x <= y
         IN <<m>> \o Ascending(S \ {m})

\* recordset.filtered: the indices of the lines a filter keeps, in order
\* (keep[i] is the filter's answer for line i)
Filtered(lines, keep) == Ascending({i \in 1..Len(lines) : keep[i]})

Rows(lines, idx) == [j \in 1..Len(idx) |-> lines[idx[j]]]

SerialWarnings(lines) ==
    LET serial_lines ==
            Filtered(lines, [i \in 1..Len(lines) |->
                                Tracking(lines[i].component_id) = "serial"])
    IN SerialWarningsOf(SerialCounter(Rows(lines, serial_lines), <<>>))

\* (mutant of LotWalk: each line is held against the lot's quantity alone,
\* lot_consumption is never added to)
RECURSIVE LotWalkNoAccumulate(_, _, _)
LotWalkNoAccumulate(lines, idx, lot_consumption) ==
    IF idx = <<>> THEN <<>>
    ELSE LET ll == lines[Head(idx)] IN
         IF ll.component_lot_id = Falsy
         THEN LotWalkNoAccumulate(lines, Tail(idx), lot_consumption)
         ELSE LET lot == ll.component_lot_id
                  qties == AvailableAndReserved(ll)
                  available_quantity == RAdd(qties.free, qties.reserved)
                  warn == IF RLess(available_quantity, ll.lot_qty)
                          THEN <<[lot |-> lot,
                                  msg |-> <<"Lot", LotName(lot),
                                            "not available at the needed qty",
                                            available_quantity, ll.lot_qty>>,
                                  row |-> Head(idx)]>>
                          ELSE <<>>
              IN warn \o LotWalkNoAccumulate(lines, Tail(idx), lot_consumption)

\* the loop over the lot lines; lot_consumption maps the lots seen so far to
\* the quantity the earlier lines take from them.  A warning's `row` is the
\* index of the line that raised it (the message itself does not carry it).
RECURSIVE LotWalk(_, _, _)
LotWalk(lines, idx, lot_consumption) ==
    IF idx = <<>> THEN <<>>
    ELSE LET ll == lines[Head(idx)] IN
         IF ll.component_lot_id = Falsy
         THEN LotWalk(lines, Tail(idx), lot_consumption)
         ELSE LET lot == ll.component_lot_id
                  consumed == IF lot \in DOMAIN lot_consumption
                              THEN lot_consumption[lot] ELSE Zero
                  qties == AvailableAndReserved(ll)
                  available_quantity == RAdd(qties.free, qties.reserved)
                  warn == IF RLess(RSub(available_quantity, consumed), ll.lot_qty)
                          THEN <<[lot |-> lot,
                                  msg |-> <<"Lot", LotName(lot),
                                            "not available at the needed qty",
                                            available_quantity, ll.lot_qty>>,
                                  row |-> Head(idx)]>>
                          ELSE <<>>
                  after == [l \in DOMAIN lot_consumption \cup {lot} |->
                               IF l = lot THEN RAdd(consumed, ll.lot_qty)
                               ELSE lot_consumption[l]]
              IN warn \o LotWalk(lines, Tail(idx), after)

LotWarnings(lines) ==
    LotWalk(lines,
            Filtered(lines, [i \in 1..Len(lines) |->
                                Tracking(lines[i].component_id) = "lot"]),
            <<>>)

\* recordset.mapped("finished_lot_id"): the lots without repetition, in the
\* order of their first line
RECURSIVE Mapped(_, _)
Mapped(lines, seen) ==
    IF lines = <<>> THEN seen
    ELSE IF \E i \in 1..Len(seen) : seen[i] = Head(lines).finished_lot_id
         THEN Mapped(Tail(lines), seen)
         ELSE Mapped(Tail(lines), Append(seen, Head(lines).finished_lot_id))

\* (mutant of NotFilledWarnings: only the first unfilled line's finished lot
\* is taken)
NotFilledWarningsFirstOnly(lines) ==
    LET not_filled_lines ==
            Filtered(lines, [i \in 1..Len(lines) |->
                                /\ lines[i].finished_lot_id # Falsy
                                /\ lines[i].component_lot_id = Falsy])
    IN IF not_filled_lines = <<>> THEN <<>>
       ELSE <<[lot |-> lines[not_filled_lines[1]].finished_lot_id,
               msg |-> <<"Some cells are not filled for some finished serial number",
                         <<LotName(lines[not_filled_lines[1]].finished_lot_id)>>>>,
               row |-> 0]>>

NotFilledWarnings(lines) ==
    LET not_filled_lines ==
            Filtered(lines, [i \in 1..Len(lines) |->
                                /\ lines[i].finished_lot_id # Falsy
                                /\ lines[i].component_lot_id = Falsy])
        not_filled_finshed_lots == Mapped(Rows(lines, not_filled_lines), <<>>)
    IN IF not_filled_lines = <<>> THEN <<>>
       ELSE [j \in 1..Len(not_filled_finshed_lots) |->
                [lot |-> not_filled_finshed_lots[j],
                 msg |-> <<"Some cells are not filled for some finished serial number",
                           [i \in 1..Len(not_filled_finshed_lots) |->
                                LotName(not_filled_finshed_lots[i])]>>,
                 row |-> 0]]

\* _compute_lot_selection_warning: one entry per lot added to warning_lots,
\* with the message appended when it was added
ComputeLotSelectionWarning(lines) ==
    SerialWarnings(lines) \o LotWarnings(lines) \o NotFilledWarnings(lines)

lot_selection_warning_ids ==
    LET w == ComputeLotSelectionWarning(line_ids) IN [i \in 1..Len(w) |-> w[i].lot]
lot_selection_warning_msg ==
    LET w == ComputeLotSelectionWarning(line_ids) IN [i \in 1..Len(w) |-> w[i].msg]
lot_selection_warning_count == Len(lot_selection_warning_ids)

\* ------------------------------------------------------------------- commit
\* mrp.production._split_productions({mo: amounts}) of the host: the order
\* keeps the first amount, a new order is made for each further amount, and
\* what the amounts leave of the order's quantity goes to one more order;
\* amounts beyond the order's quantity are refused.
RECURSIVE Sum(_)
Sum(seq) == IF seq = <<>> THEN 0 ELSE Head(seq) + Sum(Tail(seq))

SplitProductions(mo, amounts) ==
    LET total == Sum(amounts)
        all == IF total < mo.product_qty
               THEN Append(amounts, mo.product_qty - total) ELSE amounts
    IN IF total > mo.product_qty
       THEN [error |-> "UserError(split)", mos |-> <<mo>>]
       ELSE [error |-> "",
             mos |-> [i \in 1..Len(all) |-> [mo EXCEPT !.product_qty = all[i]]]]

\* the raw and byproduct moves of a (sub)order: the order's moves, each for
\* the share of the quantity that the (sub)order produces
MovesOf(prod, mo) ==
    LET all == prod.move_raw_ids \o prod.move_byproduct_ids
        share == Frac(mo.product_qty, prod.product_qty)
    IN [j \in 1..Len(all) |->
           [product_id |-> all[j].product_id,
            product_uom_qty |->
                Frac(all[j].product_qty.n * share.n, all[j].product_qty.d * share.d)]]

\* the matrix lines of a move: lines 237-239
MatrixLineOf(lines, mo, move) ==
    Filtered(lines, [i \in 1..Len(lines) |->
                        /\ \/ lines[i].finished_lot_id = mo.lot_producing_id
                           \/ lines[i].finished_lot_name = LotName(mo.lot_producing_id)
                        /\ lines[i].component_id = move.product_id])

\* the loop over the moves of one order (lines 236-247); acc holds the calls
\* made so far and the exception raised, if any.  Reading a field of a
\* recordset of several records raises ValueError (expected singleton).
RECURSIVE MoveLoop(_, _, _, _, _, _)
MoveLoop(lines, moves, j, index, mo, acc) ==
    IF j > Len(moves) THEN acc
    ELSE LET move == moves[j]
             matrix_line == MatrixLineOf(lines, mo, move)
         IN IF Len(matrix_line) > 1
            THEN [acc EXCEPT !.error = "ValueError"]
            ELSE LET reserve ==
                         IF matrix_line # <<>>
                         THEN [op |-> "_update_reserved_quantity", mo |-> index,
                               move |-> j, need |-> move.product_uom_qty,
                               available_quantity |-> lines[matrix_line[1]].lot_qty,
                               lot_id |-> lines[matrix_line[1]].component_lot_id]
                         ELSE [op |-> "_update_reserved_quantity", mo |-> index,
                               move |-> j, need |-> move.product_uom_qty,
                               available_quantity |-> move.product_uom_qty,
                               lot_id |-> Falsy]
                     done == [op |-> "qty_done", mo |-> index, move |-> j]
                 IN MoveLoop(lines, moves, j + 1, index, mo,
                             [acc EXCEPT !.calls = @ \o <<reserve, done>>])

\* the loop over the finished lots (lines 231-247); mos[index] outside the
\* list raises IndexError
RECURSIVE LotLoop(_, _, _, _, _)
LotLoop(prod, lines, finished, index, acc) ==
    IF acc.error # "" \/ index > Len(finished) THEN acc
    ELSE IF index > Len(acc.mos) THEN [acc EXCEPT !.error = "IndexError"]
    ELSE LET finished_lot == finished[index]
             mo == [acc.mos[index] EXCEPT !.lot_producing_id = finished_lot,
                                          !.qty_producing = One,
                                          !.state = "confirmed"]
             written == [acc EXCEPT
                 !.mos[index] = mo,
                 !.calls = @ \o <<[op |-> "write", mo |-> index,
                                   lot_producing_id |-> finished_lot,
                                   qty_producing |-> One],
                                  [op |-> "action_confirm", mo |-> index]>>]
         IN LotLoop(prod, lines, finished, index + 1,
                    MoveLoop(lines, MovesOf(prod, mo), 1, index, mo, written))

\* the last loop (lines 248-249)
MarkDone(acc) ==
    IF acc.error # "" THEN acc
    ELSE [acc EXCEPT
             !.mos = [i \in 1..Len(acc.mos) |-> [acc.mos[i] EXCEPT !.state = "done"]],
             !.calls = @ \o [i \in 1..Len(acc.mos) |->
                                [op |-> "button_mark_done", mo |-> i]]]

\* button_validate past the warning check: lines 225-249
Commit(prod, db, finished, lines) ==
    LET current_mo == db[1]
        amounts == [i \in 1..Len(finished) |-> 1]
        split == IF current_mo.product_qty > 1
                 THEN SplitProductions(current_mo, amounts)
                 ELSE [error |-> "", mos |-> <<current_mo>>]
        start == [error |-> split.error,
                  mos |-> split.mos,
                  calls |-> IF current_mo.product_qty > 1
                            THEN <<[op |-> "_split_productions", mo |-> 1,
                                    amounts |-> amounts]>>
                            ELSE <<>>]
    IN MarkDone(LotLoop(prod, lines, finished, 1, start))

\* ------------------------------------------------------------------ inputs
Three == Frac(3, 1)

\* the moves the orders are built from
Templates ==
    {Move(SerialProduct, Three, b) : b \in {BomLine(One, One), BomLine(Frac(2, 1), One)}}
    \cup {Move(LotProduct, Three, b) : b \in {BomLine(Frac(2, 1), One), BomLine(Three, One)}}

\* the richer moves of the generation-only specification: fractional and
\* sub-unit ratios, moves outside the BoM, moves set to zero
GenTemplates ==
    {Move(p, Three, b) : p \in {SerialProduct, LotProduct},
                         b \in {NoBomLine, BomLine(One, One), BomLine(Frac(2, 1), One),
                                BomLine(Three, Frac(2, 1)), BomLine(One, Frac(2, 1))}}
    \cup {Move(p, Zero, BomLine(Frac(2, 1), One)) : p \in {SerialProduct, LotProduct}}
    \cup {Move(UntrackedProduct, Three, BomLine(One, One))}

SeqsUpTo(S, n) == UNION {[1..k -> S] : k \in 0..n}

Orders(templates) ==
    {p \in [product_qty : 1..MaxQty,
            move_raw_ids : SeqsUpTo(templates, MaxMoves),
            move_byproduct_ids : {<<Move(ByProduct, One, NoBomLine)>>},
            show_serial_matrix : BOOLEAN] :
        Len(GetMatrixLines(p, <<>>, TRUE)) <= MaxRows}

Qty(free, reserved) == [free |-> Frac(free, 1), reserved |-> Frac(reserved, 1)]

Stocks ==
    {[l \in LotLots \cup SerialLots |->
         IF l = "la" THEN Qty(4, 1) ELSE IF l = "lb" THEN Qty(2, 0) ELSE Qty(1, 0)]}

\* the finished lots the user can have chosen: stock.lot records in the
\* order of the model
Selections == {Ascending(S) : S \in SUBSET {1, 2}}
FinishedLotOf(i) == IF i = 1 THEN "F1" ELSE "F2"
Selection(sel) == [i \in 1..Len(sel) |-> FinishedLotOf(sel[i])]

\* ------------------------------------------------------------------ actions
InitWith(templates, stocks, chosen) ==
    /\ production \in Orders(templates)
    /\ stock \in stocks
    /\ \E lot \in chosen :
           mos = <<[product_qty |-> production.product_qty,
                    lot_producing_id |-> lot,
                    qty_producing |-> Zero,
                    state |-> "draft"]>>
    /\ wizard = "none"
    /\ finished_lot_ids = <<>>
    /\ include_lots = TRUE
    /\ line_ids = <<>>
    /\ result = "none"
    /\ calls = <<>>

Init == InitWith(Templates, Stocks, {Falsy})

InitGen ==
    InitWith(GenTemplates, {[l \in LotLots \cup SerialLots |-> Qty(1, 0)]},
             {Falsy, "F1"})

\* default_get: the wizard is opened on the order
default_get ==
    /\ wizard = "none"
    /\ \E active_id \in BOOLEAN :
       IF ~active_id
       THEN /\ wizard' = "blank"
            /\ result' = "ok"
            /\ UNCHANGED <<finished_lot_ids, line_ids>>
       ELSE IF ~production.show_serial_matrix
       THEN /\ result' = "UserError(not serial)"
            /\ UNCHANGED <<wizard, finished_lot_ids, line_ids>>
       ELSE LET finished_lots ==
                    IF mos[1].lot_producing_id # Falsy
                    THEN <<mos[1].lot_producing_id>> ELSE <<>>
            IN /\ line_ids' = GetMatrixLines(
                                  production,
                                  [i \in 1..Len(finished_lots) |->
                                      LotRecord(DbId(finished_lots[i]))],
                                  include_lots)
               /\ finished_lot_ids' = finished_lots
               /\ wizard' = "open"
               /\ result' = "ok"
    /\ UNCHANGED <<production, stock, mos, include_lots, calls>>

\* _onchange_finished_lot_ids, run for the wizard's values as the user has
\* just changed them
Regenerate(finished, incl) ==
    /\ finished_lot_ids' = finished
    /\ include_lots' = incl
    /\ line_ids' = GetMatrixLines(
                       production,
                       [i \in 1..Len(finished) |-> LotRecord(NewId(finished[i]))],
                       incl)
    /\ result' = "ok"
    /\ calls' = <<>>
    /\ UNCHANGED <<production, stock, mos, wizard>>

OnchangeFinishedLots ==
    /\ wizard = "open"
    /\ \E sel \in Selections :
           /\ Selection(sel) # finished_lot_ids
           /\ Regenerate(Selection(sel), include_lots)

OnchangeIncludeLots ==
    /\ wizard = "open"
    /\ Regenerate(finished_lot_ids, ~include_lots)

\* the user picks (or clears) the lot of one cell
SetCell ==
    /\ wizard = "open"
    /\ \E i \in 1..Len(line_ids) :
           \E lot \in LotsOf(line_ids[i].component_id) \cup {Falsy} :
               /\ lot # line_ids[i].component_lot_id
               /\ line_ids' = [line_ids EXCEPT ![i].component_lot_id = lot]
    /\ result' = "ok"
    /\ calls' = <<>>
    /\ UNCHANGED <<production, stock, mos, wizard, finished_lot_ids,
                   include_lots>>

\* (mutant of WarningCheck: one warning is let through)
WarningCheckAboveOne == lot_selection_warning_count > 1

\* the check that opens button_validate
WarningCheck == lot_selection_warning_count > 0

button_validate ==
    /\ wizard = "open"
    /\ IF WarningCheck
       THEN /\ result' = "UserError(warnings)"
            /\ calls' = <<>>
            /\ UNCHANGED <<mos, wizard>>
       ELSE LET end == Commit(production, mos, finished_lot_ids, line_ids)
            IN /\ calls' = end.calls
               /\ IF end.error # ""
                  THEN /\ result' = end.error
                       /\ UNCHANGED <<mos, wizard>>
                  ELSE /\ result' = "done"
                       /\ mos' = end.mos
                       /\ wizard' = "closed"
    /\ UNCHANGED <<production, stock, finished_lot_ids, include_lots, line_ids>>

Next ==
    \/ default_get
    \/ OnchangeFinishedLots
    \/ OnchangeIncludeLots
    \/ SetCell
    \/ button_validate

Spec == Init /\ [][Next]_vars

NextGen ==
    \/ default_get
    \/ OnchangeFinishedLots
    \/ OnchangeIncludeLots

SpecGen == InitGen /\ [][NextGen]_vars

\* ==================================================================== claims
IsSerialRow(l) == Tracking(l.component_id) = "serial"
IsLotRow(l) == Tracking(l.component_id) = "lot"
Occurrences(seq, x) == Cardinality({n \in 1..Len(seq) : seq[n] = x})
AllLots == SerialLots \cup LotLots \cup FinishedLots

\* a request of button_validate has just ended
Validated == wizard \in {"open", "closed"} /\ result # "ok"

\* ---- C1
\* C1: button_validate called while the warning count is above zero ends in
\* the user error and changes nothing: the orders in the database, the rows,
\* the wizard are as before and no call is made on the host (no split, no
\* write, no confirmation, no reservation, nothing marked done).
C1_RejectedBeforeMutation ==
    [][(wizard = "open" /\ result' # "ok" /\ lot_selection_warning_count > 0)
         => /\ result' = "UserError(warnings)"
            /\ calls' = <<>>
            /\ mos' = mos
            /\ line_ids' = line_ids
            /\ wizard' = wizard]_vars

C1_Witness ==
    /\ result = "UserError(warnings)"
    /\ lot_selection_warning_count > 0
    /\ production.product_qty > 1
    /\ Len(finished_lot_ids) = production.product_qty
    /\ mos[1].state = "draft" /\ Len(mos) = 1

\* ---- C2
SerialRowsWith(lot) ==
    {i \in 1..Len(line_ids) :
        IsSerialRow(line_ids[i]) /\ line_ids[i].component_lot_id = lot}

DuplicateMsg(lot) == <<"Serial number", LotName(lot), "selected several times">>

\* C2: a serial assigned to two or more rows of serial-tracked components
\* yields exactly one duplicate message naming it and is in the implicated
\* lots once, however many rows share it; a serial on one row or none yields
\* no duplicate message; the empty cell yields none.
C2_OneDuplicateWarningPerSerial ==
    LET ids == lot_selection_warning_ids
        msgs == lot_selection_warning_msg
    IN /\ \A lot \in AllLots :
             LET expected == IF Cardinality(SerialRowsWith(lot)) >= 2 THEN 1 ELSE 0
             IN /\ Occurrences(msgs, DuplicateMsg(lot)) = expected
                /\ lot \in SerialLots => Occurrences(ids, lot) = expected
       /\ Occurrences(msgs, DuplicateMsg(Falsy)) = 0
       /\ Len(SerialWarnings(line_ids))
             = Cardinality({lot \in AllLots : Cardinality(SerialRowsWith(lot)) >= 2})

C2_Witness ==
    /\ \E lot \in SerialLots :
          /\ Cardinality(SerialRowsWith(lot)) >= 3
          /\ Occurrences(lot_selection_warning_msg, DuplicateMsg(lot)) = 1
    /\ wizard = "open"

\* ---- C3
RECURSIVE RSum(_)
RSum(qs) == IF qs = <<>> THEN Zero ELSE RAdd(Head(qs), RSum(Tail(qs)))

Available(lot) == RAdd(stock[lot].free, stock[lot].reserved)

\* what the lot-tracked rows before row i take from the lot
TakenBefore(i, lot) ==
    LET before == Ascending({j \in 1..(i - 1) :
                     IsLotRow(line_ids[j]) /\ line_ids[j].component_lot_id = lot})
    IN RSum([n \in 1..Len(before) |-> line_ids[before[n]].lot_qty])

FlaggedRows ==
    LET w == LotWarnings(line_ids) IN {w[n].row : n \in 1..Len(w)}

\* C3: a lot-tracked row assigned to lot L raises a shortfall warning exactly
\* when L's available quantity (free + reserved) less the quantities of all
\* earlier lot-tracked rows assigned to L is below the row's quantity; each
\* such row adds L once to the implicated lots, no other row raises one.
C3_CumulativeLotShortfall ==
    LET flagged == FlaggedRows
        ids == lot_selection_warning_ids
    IN /\ \A i \in 1..Len(line_ids) :
             LET l == line_ids[i] IN
             IF IsLotRow(l) /\ l.component_lot_id # Falsy
             THEN (i \in flagged)
                    <=> RLess(RSub(Available(l.component_lot_id),
                                   TakenBefore(i, l.component_lot_id)),
                              l.lot_qty)
             ELSE i \notin flagged
       /\ \A lot \in LotLots :
             Occurrences(ids, lot)
                = Cardinality({i \in flagged : line_ids[i].component_lot_id = lot})
       /\ Len(LotWarnings(line_ids)) = Cardinality(flagged)

\* the spec's example: a lot with 5 available on two rows of 3 each
C3_Witness ==
    \E i, j \in 1..Len(line_ids) :
        /\ i < j
        /\ IsLotRow(line_ids[i]) /\ IsLotRow(line_ids[j])
        /\ line_ids[i].component_lot_id = line_ids[j].component_lot_id
        /\ line_ids[i].component_lot_id # Falsy
        /\ Available(line_ids[i].component_lot_id) = Frac(5, 1)
        /\ line_ids[i].lot_qty = Three /\ line_ids[j].lot_qty = Three
        /\ FlaggedRows = {j}

\* ---- C4
\* C4: whenever a row has its finished unit chosen and its lot/serial cell
\* empty, the warning count is above zero and that finished unit is among
\* the implicated lots, whatever the other rows hold.
C4_EmptyCellFlagged ==
    LET ids == lot_selection_warning_ids
    IN \A i \in 1..Len(line_ids) :
          (line_ids[i].finished_lot_id # Falsy /\ line_ids[i].component_lot_id = Falsy)
            => /\ lot_selection_warning_count > 0
               /\ Len(ids) > 0
               /\ Occurrences(ids, line_ids[i].finished_lot_id) = 1

C4_Witness ==
    \E i, j \in 1..Len(line_ids) :
        /\ line_ids[i].finished_lot_id # Falsy /\ line_ids[i].component_lot_id = Falsy
        /\ line_ids[j].finished_lot_id # Falsy /\ line_ids[j].component_lot_id # Falsy
        /\ line_ids[j].finished_lot_id # line_ids[i].finished_lot_id
        /\ lot_selection_warning_count = 1

\* ---- C5
\* C5: when the warning count is zero no serial is on more than one row of
\* the serial-tracked components, and for every lot the quantities of the
\* lot-tracked rows assigned to it add up to no more than its available
\* (free + reserved) quantity.
C5_NoWarningMeansRowInvariant ==
    lot_selection_warning_count = 0
      => /\ \A lot \in AllLots : Cardinality(SerialRowsWith(lot)) <= 1
         /\ \A lot \in LotLots :
               RLeq(TakenBefore(Len(line_ids) + 1, lot), Available(lot))

C5_Witness ==
    /\ wizard = "open"
    /\ lot_selection_warning_count = 0
    /\ \E lot \in LotLots :
          Cardinality({i \in 1..Len(line_ids) :
              IsLotRow(line_ids[i]) /\ line_ids[i].component_lot_id = lot}) >= 2
    /\ \E i \in 1..Len(line_ids) : line_ids[i].finished_lot_id # Falsy

\* ---- C6
\* the rows of finished-unit group g, when the rows come in groups of `size`
Group(g, size) == ((g - 1) * size + 1)..(g * size)

\* C6: with k <= N finished lots chosen for an order of N units, the rows
\* come in N groups of equal size, in order: one group for each chosen lot,
\* carrying its id and name, then N - k placeholder groups without a lot,
\* named "(New Lot 1)" .. "(New Lot N-k)".
C6_GroupsAndPlaceholders ==
    LET N == production.product_qty
        k == Len(finished_lot_ids)
        size == Len(line_ids) \div N
    IN (wizard = "open" /\ k <= N)
         => /\ Len(line_ids) = N * size
            /\ \A g \in 1..N : \A r \in Group(g, size) :
                  IF g <= k
                  THEN /\ line_ids[r].finished_lot_id = finished_lot_ids[g]
                       /\ line_ids[r].finished_lot_name = LotName(finished_lot_ids[g])
                  ELSE /\ line_ids[r].finished_lot_id = Falsy
                       /\ line_ids[r].finished_lot_name = <<"(New Lot ", g - k, ")">>

C6_Witness ==
    /\ wizard = "open"
    /\ production.product_qty = 2
    /\ Len(finished_lot_ids) = 1
    /\ Len(line_ids) = 2
    /\ line_ids[1].finished_lot_name = LotName(finished_lot_ids[1])
    /\ line_ids[2].finished_lot_name = <<"(New Lot ", 1, ")">>

\* ---- C7
\* a row without its cell
Shape(l) == [component_id |-> l.component_id,
             component_column_name |-> l.component_column_name,
             lot_qty |-> l.lot_qty,
             finished_lot_id |-> l.finished_lot_id,
             finished_lot_name |-> l.finished_lot_name]
SerialShapes(lines) ==
    LET serial == SelectSeq(lines, IsSerialRow)
    IN [i \in 1..Len(serial) |-> Shape(serial[i])]

\* C7: when lot-inclusion is switched off for the same order and the same
\* chosen finished lots, the regenerated rows hold no row of a lot-tracked
\* component, and their serial-tracked rows are the serial-tracked rows of
\* before: same components, columns, quantities and finished-unit labels, in
\* the same order.
C7_DisablingLotsKeepsSerialRows ==
    [][(wizard = "open" /\ include_lots /\ ~include_lots'
        /\ finished_lot_ids' = finished_lot_ids)
         => /\ \A i \in 1..Len(line_ids') : ~IsLotRow(line_ids'[i])
            /\ SerialShapes(line_ids') = SerialShapes(line_ids)]_vars

C7_Witness ==
    /\ wizard = "open"
    /\ ~include_lots
    /\ \E i \in 1..Len(line_ids) : IsSerialRow(line_ids[i])
    /\ \E j \in 1..Len(production.move_raw_ids) :
          /\ Tracking(production.move_raw_ids[j].product_id) = "lot"
          /\ production.move_raw_ids[j].product_qty # Zero
    /\ finished_lot_ids # <<>>

\* ---- C10
\* the per-finished-unit quantity the claim names
ClaimedQty(move) ==
    IF move.bom_line_id.set
    THEN Frac(move.bom_line_id.product_qty.n * move.bom_line_id.bom_product_qty.d,
              move.bom_line_id.product_qty.d * move.bom_line_id.bom_product_qty.n)
    ELSE Frac(move.product_qty.n, move.product_qty.d * production.product_qty)

\* the greatest integer not above q (q >= 0)
Floor(q) == CHOOSE f \in 0..q.n : f * q.d <= q.n /\ q.n < (f + 1) * q.d

ClaimedRows(move) ==
    LET p == move.product_id
        q == ClaimedQty(move)
    IN IF move.product_qty = Zero THEN <<>>
       ELSE IF Tracking(p) = "serial"
            THEN [i \in 1..Floor(q) |->
                     [component_id |-> p, column |-> <<p, i>>, lot_qty |-> One]]
       ELSE IF Tracking(p) = "lot" /\ include_lots
            THEN <<[component_id |-> p, column |-> <<p>>, lot_qty |-> q]>>
       ELSE <<>>

RECURSIVE ClaimedGroup(_)
ClaimedGroup(moves) ==
    IF moves = <<>> THEN <<>>
    ELSE ClaimedRows(Head(moves)) \o ClaimedGroup(Tail(moves))

\* C10: every finished-unit group holds, for the order's consumption
\* requirements in order: floor(q) rows numbered 1..floor(q) of quantity 1
\* for a serial-tracked component, one row of quantity q for a lot-tracked
\* component when lot-inclusion is on, and no row for an untracked component
\* or a requirement of quantity zero.
C10_RowsPerRequirement ==
    LET group == ClaimedGroup(production.move_raw_ids)
        size == Len(group)
    IN wizard = "open"
         => /\ Len(line_ids) = production.product_qty * size
            /\ \A g \in 1..production.product_qty : \A t \in 1..size :
                  LET l == line_ids[(g - 1) * size + t]
                  IN /\ l.component_id = group[t].component_id
                     /\ l.component_column_name = group[t].column
                     /\ l.lot_qty = group[t].lot_qty

\* a serial requirement of 3/2 per unit (one row), beside one below 1 (none)
C10_Witness ==
    /\ wizard = "open"
    /\ Len(line_ids) > 0
    /\ \E j \in 1..Len(production.move_raw_ids) :
          LET m == production.move_raw_ids[j] IN
          /\ Tracking(m.product_id) = "serial" /\ m.product_qty # Zero
          /\ ClaimedQty(m) = Frac(3, 2)
    /\ \E j \in 1..Len(production.move_raw_ids) :
          LET m == production.move_raw_ids[j] IN
          /\ Tracking(m.product_id) = "serial" /\ m.product_qty # Zero
          /\ ClaimedQty(m) = Frac(1, 2)
    /\ \A i \in 1..Len(line_ids) : line_ids[i].component_column_name = <<SerialProduct, 1>>

\* ---- C8
CallsOf(op, i) == {n \in 1..Len(calls) : calls[n].op = op /\ calls[n].mo = i}
MarkDoneCalls == {n \in 1..Len(calls) : calls[n].op = "button_mark_done"}
WorkCalls ==
    {n \in 1..Len(calls) :
        calls[n].op \in {"write", "action_confirm", "_update_reserved_quantity",
                         "qty_done"}}

\* button_validate has just run past the warning check
PassedCheck == Validated /\ result # "UserError(warnings)"

\* C8: a button_validate that passes the warning check ends with one suborder
\* per chosen finished unit; each suborder is marked complete, and before
\* that was written its own finished lot with quantity-producing 1 and was
\* confirmed; nothing is marked complete before every write, confirmation
\* and reservation has been made.
C8_EverySuborderAssignedThenDone ==
    PassedCheck
      => /\ result = "done"
         /\ Len(mos) = Len(finished_lot_ids)
         /\ \A i \in 1..Len(mos) :
               /\ mos[i].state = "done"
               /\ \E d \in CallsOf("button_mark_done", i) :
                  \E w \in CallsOf("write", i) :
                  \E c \in CallsOf("action_confirm", i) :
                     /\ w < c /\ c < d
                     /\ calls[w].lot_producing_id = finished_lot_ids[i]
                     /\ calls[w].qty_producing = One
         /\ \A d \in MarkDoneCalls : \A n \in WorkCalls : n < d

\* ---- C9
\* the rows of one finished unit and one component
KeyRows(lot, product) ==
    {r \in 1..Len(line_ids) :
        line_ids[r].finished_lot_id = lot /\ line_ids[r].component_id = product}

Reserved(i, j, lot_id, qty) ==
    \E n \in CallsOf("_update_reserved_quantity", i) :
        /\ calls[n].move = j
        /\ calls[n].lot_id = lot_id
        /\ calls[n].available_quantity = qty

\* C9: for each suborder the commit has taken up and each of its raw and
\* byproduct moves, reservation is asked with the lot/serial and the quantity
\* of every matrix row of that finished unit and component, and for the
\* move's full quantity without a lot only when no row has that key.
C9_EveryRowLotReserved ==
    \A w \in {n \in 1..Len(calls) : calls[n].op = "write"} :
        LET i == calls[w].mo
            lot == calls[w].lot_producing_id
            moves == production.move_raw_ids \o production.move_byproduct_ids
        IN \A j \in 1..Len(moves) :
              IF KeyRows(lot, moves[j].product_id) # {}
              THEN \A r \in KeyRows(lot, moves[j].product_id) :
                      Reserved(i, j, line_ids[r].component_lot_id, line_ids[r].lot_qty)
              ELSE \E n \in CallsOf("_update_reserved_quantity", i) :
                      /\ calls[n].move = j
                      /\ calls[n].lot_id = Falsy
                      /\ calls[n].available_quantity = calls[n].need

====
